---- MODULE Spec2Model ----
(***************************************************************************)
(* PixelSynth (App.py): a 64x64 colour grid painted with the mouse, five   *)
(* instrument colours, rendered to a looping audio buffer by               *)
(* grid_to_audio, randomly mutated by mutate_grid and exported by          *)
(* save_snapshot / save_gif.  The model follows the event loop of App.py:  *)
(* one action per event handler, the handler's helper functions as         *)
(* operators.                                                              *)
(*                                                                         *)
(* Representation.                                                         *)
(*  - The grid (a numpy array of GRID_SIZE x GRID_SIZE RGB triples) is a   *)
(*    function from cells <<y, x>> to triples.  Its domain holds the cells *)
(*    the enumerated inputs can address; every other cell of the array is  *)
(*    never written and holds the triple np.zeros gave it (Cell).          *)
(*  - A rendered buffer (a float array of LOOP_LEN_SEC * SAMPLE_RATE       *)
(*    samples) is the zero buffer of that length together with the         *)
(*    sequence of slice additions grid_to_audio performed on it, in the    *)
(*    order of its loops.  A sample's value before normalisation is the    *)
(*    sum of the note samples of the additions that cover its index        *)
(*    (SampleTerms); real arithmetic stands for float64.                   *)
(*  - random.randint / random.random are inputs: the draws a handler       *)
(*    consumed are recorded in rand.  Of the GRID_SIZE*GRID_SIZE//10       *)
(*    iterations of one mutate_grid pass, the enumerated ones are listed;  *)
(*    the others draw x = y in the copy branch, which writes a cell onto   *)
(*    itself.                                                              *)
(*  - The per-frame part of the main loop (playhead_start_time, drawing)   *)
(*    reads the state below and writes none of it; it is left out.         *)
(***************************************************************************)
EXTENDS Integers, Sequences, FiniteSets, TLC

(* ------------------------------ constants ------------------------------ *)
GRID_SIZE == 64
PIXEL_ZOOM == 8
SAMPLE_RATE == 44100
UI_HEIGHT == 110
LOOP_LEN_SEC == 4

INSTRUMENTS ==
  << [color |-> <<255, 80, 80>>,   name |-> "Kick",   key |-> "1"],
     [color |-> <<80, 160, 255>>,  name |-> "Snare",  key |-> "2"],
     [color |-> <<100, 220, 100>>, name |-> "Hi-Hat", key |-> "3"],
     [color |-> <<255, 230, 100>>, name |-> "Bass",   key |-> "4"],
     [color |-> <<200, 120, 255>>, name |-> "Lead",   key |-> "5"] >>

\* COLOR_TO_IDX = {tuple(c): i for i, (c, *_) in enumerate(INSTRUMENTS)}
COLOR_TO_IDX ==
  [c \in {INSTRUMENTS[i].color : i \in 1..Len(INSTRUMENTS)} |->
     (CHOOSE i \in 1..Len(INSTRUMENTS) : INSTRUMENTS[i].color = c) - 1]

\* np.zeros((GRID_SIZE, GRID_SIZE, 3)): the triple of an untouched cell.
Background == <<0, 0, 0>>

\* range(8) in save_gif: the number of frames, and of mutate_grid passes.
GifFrames == 8

\* range(GRID_SIZE*GRID_SIZE//10) in mutate_grid.
NumMutations == (GRID_SIZE * GRID_SIZE) \div 10

\* Python's None; a value v that may be None is held as <<>> or <<v>>.
None == <<>>
Some(v) == <<v>>
The(o) == o[1]

(* -------------------------------- bounds ------------------------------- *)
\* Iterations of one mutate_grid pass that are enumerated (the remaining
\* NumMutations - MaxMut write a cell onto itself).
MaxMut == 1

\* Addresses for pygame Sound objects; an address is reused once no
\* variable and no mixer channel refers to the object.
MaxSounds == 3

(* ------------------------- enumerated inputs --------------------------- *)
\* Cells <<y, x>> the enumerated mouse positions and random draws address.
TrackedCells == { <<0, GRID_SIZE - 1>>, <<GRID_SIZE - 1, 0>> }

\* event.pos values <<mx, my>>: on cell <<0,63>>, on cell <<63,0>>, on the
\* UI panel above the grid, and right of the grid in a widened window.
PosTopRight   == <<(GRID_SIZE - 1) * PIXEL_ZOOM, UI_HEIGHT>>
PosBottomLeft == <<0, UI_HEIGHT + (GRID_SIZE - 1) * PIXEL_ZOOM + PIXEL_ZOOM - 1>>
PosPanel      == <<100, 50>>
PosRightOf    == <<GRID_SIZE * PIXEL_ZOOM + 88, UI_HEIGHT + 90>>
Positions == { PosTopRight, PosBottomLeft, PosPanel, PosRightOf }

\* event.button: left, right, wheel up, wheel down.
Buttons == {1, 3, 4, 5}

\* Key-down events as (event.key, event.unicode); unicode is a sequence of
\* characters, empty for modifier, arrow and function keys.
KeyEvents ==
  { [key |-> "K_ESCAPE", unicode |-> <<"ESC">>],
    [key |-> "K_SPACE",  unicode |-> <<" ">>],
    [key |-> "K_s",      unicode |-> <<"s">>],
    [key |-> "K_m",      unicode |-> <<"m">>],
    [key |-> "K_r",      unicode |-> <<"r">>],
    [key |-> "K_t",      unicode |-> <<"t">>],
    [key |-> "K_f",      unicode |-> <<"f">>],
    [key |-> "K_g",      unicode |-> <<"g">>],
    [key |-> "K_1",      unicode |-> <<"1">>],
    [key |-> "K_2",      unicode |-> <<"2">>],
    [key |-> "K_3",      unicode |-> <<"3">>],
    [key |-> "K_4",      unicode |-> <<"4">>],
    [key |-> "K_5",      unicode |-> <<"5">>],
    [key |-> "K_a",      unicode |-> <<"a">>],
    [key |-> "K_LSHIFT", unicode |-> <<>>] }

\* random.randint(0,4) outcomes enumerated in the colour branch.
MutColors == {0, 4}

\* One iteration's draws: x, y, random.random() < 0.5, and (colour branch
\* only) random.randint(0,4).
Draws ==
  { [x |-> c[2], y |-> c[1], flip |-> TRUE, c |-> k] :
       c \in TrackedCells, k \in MutColors }
  \cup { [x |-> c[2], y |-> c[1], flip |-> FALSE, c |-> 0] : c \in TrackedCells }

RECURSIVE SeqsUpTo(_, _)
SeqsUpTo(S, n) ==
  IF n = 0 THEN { <<>> }
  ELSE LET shorter == SeqsUpTo(S, n - 1)
       IN  shorter \cup { Append(s, e) : s \in shorter, e \in S }

\* The enumerated iterations of one mutate_grid pass.
MutDraws == SeqsUpTo(Draws, MaxMut)

\* The draws of save_gif's GifFrames passes: the first or the last pass
\* has at most one enumerated iteration.
GifTapes ==
  { [k \in 1..GifFrames |-> IF k = p THEN d ELSE <<>>] :
       p \in {1, GifFrames}, d \in { <<>> } \cup { <<e>> : e \in Draws } }

(* ------------------------------- state --------------------------------- *)
VARIABLES
  grid,               \* the numpy array grid
  current_color_idx,
  playing,
  mouse_down,
  mouse_button,
  fullscreen,
  audio,              \* the global audio of the main loop (last render)
  sound,              \* the global sound: None or a Sound object
  channels,           \* the Sound objects the mixer is looping
  status,             \* "running", "exited" (pygame.quit(); exit()), "crashed"
  event,              \* the pygame event handled last
  rand,               \* the random draws that handler consumed
  out                 \* the files that handler wrote

vars == << grid, current_color_idx, playing, mouse_down, mouse_button,
           fullscreen, audio, sound, channels, status, event, rand, out >>

(* ------------------------------ the grid ------------------------------- *)
\* grid[y, x]
Cell(g, y, x) == IF <<y, x>> \in DOMAIN g THEN g[<<y, x>>] ELSE Background

\* grid[y, x] = v
SetCell(g, y, x, v) ==
  [c \in DOMAIN g \cup {<<y, x>>} |-> IF c = <<y, x>> THEN v ELSE g[c]]

\* grid = np.zeros((GRID_SIZE, GRID_SIZE, 3), dtype=np.uint8)
InitGrid == [c \in TrackedCells |-> Background]

\* Variant: grid[0,:] = 0, only the first row is cleared.
ResetGridKeepRows(g) ==
  [c \in DOMAIN g |-> IF c[1] = 0 THEN <<0, 0, 0>> ELSE g[c]]

\* grid[:,:] = 0
ResetGrid(g) == [c \in DOMAIN g |-> <<0, 0, 0>>]

\* INSTRUMENTS[i] for a Python index i: negative indices count from the
\* end, an index outside -len..len-1 raises IndexError.
PyIndexOk(list, i) == -Len(list) <= i /\ i < Len(list)
PyIndex(list, i) == IF i >= 0 THEN list[i + 1] ELSE list[Len(list) + i + 1]

\* The triple the left button writes: INSTRUMENTS[current_color_idx][0]
PaintColor(idx) == PyIndex(INSTRUMENTS, idx).color

\* Variant: the right button writes the window's fill colour.
EraseColorFill == <<15, 15, 20>>

\* The triple the right button writes: (0,0,0)
EraseColor == <<0, 0, 0>>

\* gx = mx // PIXEL_ZOOM ; gy = (my - UI_HEIGHT) // PIXEL_ZOOM
GridX(pos) == pos[1] \div PIXEL_ZOOM
GridY(pos) == (pos[2] - UI_HEIGHT) \div PIXEL_ZOOM

\* The painting block shared by MOUSEBUTTONDOWN and MOUSEMOTION:
\*   if 0 <= gx < GRID_SIZE and 0 <= gy < GRID_SIZE:
\*       if mouse_button == 1: grid[gy, gx] = INSTRUMENTS[current_color_idx][0]
\*       elif mouse_button == 3: grid[gy, gx] = (0,0,0)
PaintAt(g, pos, button, idx) ==
  LET gx == GridX(pos)
      gy == GridY(pos)
  IN  IF 0 <= gx /\ gx < GRID_SIZE /\ 0 <= gy /\ gy < GRID_SIZE
      THEN IF button = 1 THEN SetCell(g, gy, gx, PaintColor(idx))
           ELSE IF button = 3 THEN SetCell(g, gy, gx, EraseColor)
           ELSE g
      ELSE g

\* Whether the painting block raises IndexError.
PaintRaises(pos, button, idx) ==
  LET gx == GridX(pos)
      gy == GridY(pos)
  IN  /\ 0 <= gx /\ gx < GRID_SIZE /\ 0 <= gy /\ gy < GRID_SIZE
      /\ button = 1
      /\ ~PyIndexOk(INSTRUMENTS, idx)

(* ------------------------------ mutate --------------------------------- *)
\* One iteration of mutate_grid with the draws d.
MutateCell(g, d) ==
  IF d.flip
  THEN SetCell(g, d.y, d.x, INSTRUMENTS[d.c + 1].color)
  ELSE SetCell(g, d.y, d.x, Cell(g, d.x % GRID_SIZE, d.y % GRID_SIZE))

\* mutate_grid(): the enumerated iterations, in order.
RECURSIVE mutate_grid(_, _)
mutate_grid(g, draws) ==
  IF draws = <<>> THEN g
  ELSE mutate_grid(MutateCell(g, Head(draws)), Tail(draws))

\* The grid after the first n passes of a tape of passes.
RECURSIVE MutatePasses(_, _, _)
MutatePasses(g, tape, n) ==
  IF n = 0 THEN g
  ELSE mutate_grid(MutatePasses(g, tape, n - 1), tape[n])

(* --------------------------- grid_to_audio ----------------------------- *)
\* step_samples = SAMPLE_RATE * LOOP_LEN_SEC // steps   (steps = GRID_SIZE)
step_samples == (SAMPLE_RATE * LOOP_LEN_SEC) \div GRID_SIZE

\* len(np.zeros(LOOP_LEN_SEC * SAMPLE_RATE))
BufferLen == LOOP_LEN_SEC * SAMPLE_RATE

\* len(t) = len(note): np.linspace(0, step_samples/SAMPLE_RATE, step_samples,
\* endpoint=False) has step_samples points, t[k] = k / SAMPLE_RATE.
NoteLen == step_samples

\* synth_note draws np.random.uniform for Snare (1) and Hi-Hat (2).
NoiseInstruments == {1, 2}

Min(a, b) == IF a <= b THEN a ELSE b
Max(a, b) == IF a >= b THEN a ELSE b

\* Variant: the note of column x starts one step late.
WriteStartNext(x) == (x + 1) * step_samples

\* start = x * step_samples
WriteStart(x) == x * step_samples

\* Variant: the row, not the column, places the note in time.
CellWriteByRow(g, y, x) ==
  LET inst_idx == COLOR_TO_IDX[g[<<y, x>>]]
      start    == y * step_samples
      end      == start + step_samples
      lo       == Min(start, BufferLen)
  IN  [ inst |-> inst_idx, y |-> y, x |-> x, start |-> start, end |-> end,
        lo |-> lo, hi |-> Max(lo, Min(end, BufferLen)),
        src |-> Min(NoteLen, end - start),
        seed |-> IF inst_idx \in NoiseInstruments THEN <<y, x>> ELSE <<>> ]

\* The slice addition grid_to_audio performs for the painted cell (y, x):
\*   audio[start:end] += note[:min(len(note), end-start)]
\* lo..hi is the part of the buffer the slice audio[start:end] selects (numpy
\* clips a slice to the array), src the length of the note slice, seed the
\* identity of the noise vector drawn for this note.
CellWrite(g, y, x) ==
  LET inst_idx == COLOR_TO_IDX[g[<<y, x>>]]
      start    == WriteStart(x)
      end      == start + step_samples
      lo       == Min(start, BufferLen)
  IN  [ inst |-> inst_idx, y |-> y, x |-> x, start |-> start, end |-> end,
        lo |-> lo, hi |-> Max(lo, Min(end, BufferLen)),
        src |-> Min(NoteLen, end - start),
        seed |-> IF inst_idx \in NoiseInstruments THEN <<y, x>> ELSE <<>> ]

\* numpy adds a source of length m to a slice of length n iff m = n or m = 1;
\* otherwise += raises ValueError.
WriteOk(w) == (w.hi - w.lo = w.src) \/ w.src = 1

\* The cells the loops "for x in range(steps): for y in range(GRID_SIZE)"
\* find with "color in COLOR_TO_IDX".  Cells outside DOMAIN g hold
\* Background, which is no key of COLOR_TO_IDX.
PaintedCells(g) ==
  { c \in DOMAIN g : /\ c[1] \in 0..(GRID_SIZE - 1)
                     /\ c[2] \in 0..(GRID_SIZE - 1)
                     /\ g[c] \in DOMAIN COLOR_TO_IDX }

\* Position of a cell in the order of the loops: x outer, y inner.
LoopRank(c) == c[2] * GRID_SIZE + c[1]

\* The painted cells in loop order.
PaintedSeq(g) ==
  LET P == PaintedCells(g)
  IN  [ i \in 1..Cardinality(P) |->
          CHOOSE c \in P :
            Cardinality({ d \in P : LoopRank(d) < LoopRank(c) }) = i - 1 ]

\* grid_to_audio(grid).  raised: a slice addition raised ValueError (the
\* additions before it are listed); otherwise the buffer is returned
\* divided by (max|audio| + 1e-6).
grid_to_audio(g) ==
  LET cells  == PaintedSeq(g)
      all    == [ i \in 1..Len(cells) |-> CellWrite(g, cells[i][1], cells[i][2]) ]
      bad    == { i \in 1..Len(all) : ~WriteOk(all[i]) }
      upto   == IF bad = {} THEN Len(all)
                ELSE (CHOOSE i \in bad : \A j \in bad : i <= j) - 1
  IN  [ len |-> BufferLen,
        writes |-> SubSeq(all, 1, upto),
        raised |-> bad # {},
        normalized |-> bad = {} ]

\* The additions of buffer a that cover sample index i.
Covering(a, i) == { k \in 1..Len(a.writes) : a.writes[k].lo <= i /\ i < a.writes[k].hi }

\* The note sample an addition contributes at index i: (instrument, index
\* into the note, noise vector).
TermAt(w, i) == << w.inst, IF w.src = 1 THEN 0 ELSE i - w.lo, w.seed >>

\* The value of sample i before normalisation, as the bag of the note
\* samples summed into it; the empty bag is the float 0.0, and stays 0.0
\* when divided by (peak + 1e-6).
SampleTerms(a, i) ==
  LET ks == Covering(a, i)
      T  == { TermAt(a.writes[k], i) : k \in ks }
  IN  [ t \in T |-> Cardinality({ k \in ks : TermAt(a.writes[k], i) = t }) ]

\* The indices at which the set of covering additions can change.
Breakpoints(a) ==
  {0} \cup { a.writes[k].lo : k \in 1..Len(a.writes) }
      \cup { a.writes[k].hi : k \in 1..Len(a.writes) }

\* Two buffers hold the same samples.  Between two consecutive breakpoints
\* both bags shift their note indices together, so the buffers agree on the
\* whole stretch iff they agree at its first index.
SameSamples(a, b) ==
  /\ a.len = b.len
  /\ \A i \in (Breakpoints(a) \cup Breakpoints(b)) \cap (0..(a.len - 1)) :
        SampleTerms(a, i) = SampleTerms(b, i)

\* Every sample of the buffer is 0.0.
AllZero(a) == \A k \in 1..Len(a.writes) : a.writes[k].hi <= a.writes[k].lo

(* ------------------------------ playback ------------------------------- *)
\* arr = (audio * 32767).astype(np.int16)
ToInt16(a) == [ scale |-> 32767, dtype |-> "int16", of |-> a ]

\* An address for a new Sound object: the least one no live object has.
FreshId(snd, chans) ==
  LET used == { s.id : s \in chans } \cup { snd[i].id : i \in 1..Len(snd) }
  IN  CHOOSE i \in 0..(MaxSounds - 1) :
        /\ i \notin used
        /\ \A j \in 0..(MaxSounds - 1) : j \notin used => i <= j
HasFreshId(snd, chans) ==
  \E i \in 0..(MaxSounds - 1) :
     i \notin ({ s.id : s \in chans } \cup { snd[j].id : j \in 1..Len(snd) })

\* pygame.sndarray.make_sound(arr.reshape(-1,1).repeat(2,axis=1))
MakeSound(a, snd, chans) ==
  [ id |-> FreshId(snd, chans), pcm |-> ToInt16(a), nchannels |-> 2 ]

\* Variant: the old sound is left playing.
StopKeep(snd, chans) == chans

\* if sound: sound.stop()   -- stops every channel looping that object
StopSound(snd, chans) ==
  IF snd = None THEN chans ELSE { s \in chans : s.id # The(snd).id }

\* sound.play(loops=-1)
PlayLoop(s, chans) == chans \cup {s}

(* ------------------------------ snapshots ------------------------------ *)
\* Image.fromarray(g, 'RGB').resize((GRID_SIZE*PIXEL_ZOOM, GRID_SIZE*PIXEL_ZOOM),
\*                                  Image.NEAREST)
Snapshot(g) ==
  [ width |-> GRID_SIZE * PIXEL_ZOOM, height |-> GRID_SIZE * PIXEL_ZOOM,
    zoom |-> PIXEL_ZOOM, cells |-> g ]

\* The pixel (u, v) of an image.
Pixel(img, u, v) == Cell(img.cells, v \div img.zoom, u \div img.zoom)

\* frames of save_gif: g = grid.copy(); for _ in range(8):
\*     frames.append(image of g); mutate_grid()
GifFrameList(g) == [ k \in 1..GifFrames |-> Snapshot(g) ]

(* ------------------------------- events -------------------------------- *)
KeyDownEvent(k) ==
  [ type |-> "KEYDOWN", key |-> k.key, unicode |-> k.unicode,
    button |-> 0, pos |-> <<0, 0>> ]
MouseEvent(t, b, pos) ==
  [ type |-> t, key |-> "", unicode |-> <<>>, button |-> b, pos |-> pos ]
NoEvent == MouseEvent("", 0, <<0, 0>>)

\* The keys the if/elif chain of KEYDOWN tests before event.unicode.
NamedKeys == { "K_ESCAPE", "K_SPACE", "K_s", "K_m", "K_r", "K_t", "K_f", "K_g" }

\* u in s for Python strings: u occurs in s as a substring.
PyIn(u, s) ==
  \E i \in 0..(Len(s) - Len(u)) : SubSeq(s, i + 1, i + Len(u)) = u

DigitChars == << "0", "1", "2", "3", "4", "5", "6", "7", "8", "9" >>
IsDigit(ch) == \E d \in 1..Len(DigitChars) : DigitChars[d] = ch
DigitVal(ch) == (CHOOSE d \in 1..Len(DigitChars) : DigitChars[d] = ch) - 1

\* int(u) for a string u of digit characters; int raises ValueError on the
\* empty string and on any other character.
PyIntOk(u) == u # <<>> /\ \A i \in 1..Len(u) : IsDigit(u[i])
RECURSIVE PyInt(_)
PyInt(u) ==
  IF u = <<>> THEN 0
  ELSE 10 * PyInt(SubSeq(u, 1, Len(u) - 1)) + DigitVal(u[Len(u)])

\* (current_color_idx - 1) % len(INSTRUMENTS), (current_color_idx + 1) % ...
WheelUp(idx) == (idx - 1) % Len(INSTRUMENTS)
WheelDown(idx) == (idx + 1) % Len(INSTRUMENTS)

(* ------------------------------- Init ---------------------------------- *)
Init ==
  /\ grid = InitGrid
  /\ current_color_idx = 0
  /\ playing = FALSE
  /\ mouse_down = FALSE
  /\ mouse_button = 1
  /\ fullscreen = FALSE
  /\ audio = None
  /\ sound = None
  /\ channels = {}
  /\ status = "running"
  /\ event = NoEvent
  /\ rand = <<>>
  /\ out = None

(* ------------------------------ handlers ------------------------------- *)
\* A handler that draws nothing at random and writes no file.
Quiet == rand' = <<>> /\ out' = None

\* pygame.QUIT: pygame.quit(); exit()
Quit ==
  /\ status = "running"
  /\ event' = MouseEvent("QUIT", 0, <<0, 0>>)
  /\ status' = "exited"
  /\ channels' = {}
  /\ Quiet
  /\ UNCHANGED << grid, current_color_idx, playing, mouse_down, mouse_button,
                  fullscreen, audio, sound >>

\* K_ESCAPE: pygame.quit(); exit()
KeyEscape(k) ==
  /\ status = "running"
  /\ k.key = "K_ESCAPE"
  /\ event' = KeyDownEvent(k)
  /\ status' = "exited"
  /\ channels' = {}
  /\ Quiet
  /\ UNCHANGED << grid, current_color_idx, playing, mouse_down, mouse_button,
                  fullscreen, audio, sound >>

\* K_SPACE: playing = not playing; on: render, stop the old sound, play the
\* new one; off: stop the sound.
KeySpace(k) ==
  /\ status = "running"
  /\ k.key = "K_SPACE"
  /\ HasFreshId(sound, channels)
  /\ event' = KeyDownEvent(k)
  /\ playing' = ~playing
  /\ Quiet
  /\ IF ~playing
     THEN LET a == grid_to_audio(grid)
              s == MakeSound(a, sound, channels)
          IN  IF a.raised
              THEN /\ status' = "crashed"
                   /\ channels' = {}
                   /\ UNCHANGED << audio, sound >>
              ELSE /\ audio' = Some(a)
                   /\ sound' = Some(s)
                   /\ channels' = PlayLoop(s, StopSound(sound, channels))
                   /\ UNCHANGED status
     ELSE /\ channels' = StopSound(sound, channels)
          /\ UNCHANGED << audio, sound, status >>
  /\ UNCHANGED << grid, current_color_idx, mouse_down, mouse_button, fullscreen >>

\* K_t: render, stop the old sound, play the new one.
KeyT(k) ==
  /\ status = "running"
  /\ k.key = "K_t"
  /\ HasFreshId(sound, channels)
  /\ event' = KeyDownEvent(k)
  /\ Quiet
  /\ LET a == grid_to_audio(grid)
         s == MakeSound(a, sound, channels)
     IN  IF a.raised
         THEN /\ status' = "crashed"
              /\ channels' = {}
              /\ UNCHANGED << audio, sound >>
         ELSE /\ audio' = Some(a)
              /\ sound' = Some(s)
              /\ channels' = PlayLoop(s, StopSound(sound, channels))
              /\ UNCHANGED status
  /\ UNCHANGED << grid, current_color_idx, playing, mouse_down, mouse_button,
                  fullscreen >>

\* K_s: save_snapshot() writes the image, the rendered audio as 16-bit mono
\* PCM, and the spectrogram of the rendered audio.
KeyS(k) ==
  /\ status = "running"
  /\ k.key = "K_s"
  /\ event' = KeyDownEvent(k)
  /\ rand' = <<>>
  /\ LET a == grid_to_audio(grid)
     IN  IF a.raised
         THEN /\ status' = "crashed"
              /\ channels' = {}
              /\ out' = Some([ kind |-> "png", png |-> Snapshot(grid) ])
         ELSE /\ out' = Some([ kind |-> "snapshot", png |-> Snapshot(grid),
                                wav |-> ToInt16(a), specgram |-> a ])
              /\ UNCHANGED << status, channels >>
  /\ UNCHANGED << grid, current_color_idx, playing, mouse_down, mouse_button,
                  fullscreen, audio, sound >>

\* K_m: mutate_grid()
KeyM(k, draws) ==
  /\ status = "running"
  /\ k.key = "K_m"
  /\ event' = KeyDownEvent(k)
  /\ rand' = << draws >>
  /\ out' = None
  /\ grid' = mutate_grid(grid, draws)
  /\ UNCHANGED << current_color_idx, playing, mouse_down, mouse_button,
                  fullscreen, audio, sound, channels, status >>

\* K_r: grid[:,:] = 0
KeyR(k) ==
  /\ status = "running"
  /\ k.key = "K_r"
  /\ event' = KeyDownEvent(k)
  /\ Quiet
  /\ grid' = ResetGrid(grid)
  /\ UNCHANGED << current_color_idx, playing, mouse_down, mouse_button,
                  fullscreen, audio, sound, channels, status >>

\* K_f: fullscreen = not fullscreen; set_mode(...)
KeyF(k) ==
  /\ status = "running"
  /\ k.key = "K_f"
  /\ event' = KeyDownEvent(k)
  /\ Quiet
  /\ fullscreen' = ~fullscreen
  /\ UNCHANGED << grid, current_color_idx, playing, mouse_down, mouse_button,
                  audio, sound, channels, status >>

\* K_g: save_gif().  g = grid.copy() is what every frame shows;
\* mutate_grid() runs on the global grid after each frame.
KeyG(k, tape) ==
  /\ status = "running"
  /\ k.key = "K_g"
  /\ event' = KeyDownEvent(k)
  /\ rand' = tape
  /\ out' = Some([ kind |-> "gif", frames |-> GifFrameList(grid),
                    duration |-> 300, loop |-> 0 ])
  /\ grid' = MutatePasses(grid, tape, GifFrames)
  /\ UNCHANGED << current_color_idx, playing, mouse_down, mouse_button,
                  fullscreen, audio, sound, channels, status >>

\* Any other key: elif event.unicode in "12345":
\*                    current_color_idx = int(event.unicode)-1
KeyOther(k) ==
  /\ status = "running"
  /\ k.key \notin NamedKeys
  /\ event' = KeyDownEvent(k)
  /\ Quiet
  /\ IF PyIn(k.unicode, << "1", "2", "3", "4", "5" >>)
     THEN IF PyIntOk(k.unicode)
          THEN /\ current_color_idx' = PyInt(k.unicode) - 1
               /\ UNCHANGED << status, channels >>
          ELSE /\ status' = "crashed"
               /\ channels' = {}
               /\ UNCHANGED current_color_idx
     ELSE UNCHANGED << current_color_idx, status, channels >>
  /\ UNCHANGED << grid, playing, mouse_down, mouse_button, fullscreen, audio,
                  sound >>

\* MOUSEBUTTONDOWN: paint or erase under the pointer, then the wheel
\* buttons step the selected instrument.
MouseButtonDown(pos, b) ==
  /\ status = "running"
  /\ event' = MouseEvent("MOUSEBUTTONDOWN", b, pos)
  /\ Quiet
  /\ mouse_down' = TRUE
  /\ mouse_button' = b
  /\ IF PaintRaises(pos, b, current_color_idx)
     THEN /\ status' = "crashed"
          /\ channels' = {}
          /\ UNCHANGED << grid, current_color_idx >>
     ELSE /\ grid' = PaintAt(grid, pos, b, current_color_idx)
          /\ current_color_idx' =
                IF b = 4 THEN WheelUp(current_color_idx)
                ELSE IF b = 5 THEN WheelDown(current_color_idx)
                ELSE current_color_idx
          /\ UNCHANGED << status, channels >>
  /\ UNCHANGED << playing, fullscreen, audio, sound >>

\* MOUSEBUTTONUP: mouse_down = False
MouseButtonUp ==
  /\ status = "running"
  /\ event' = MouseEvent("MOUSEBUTTONUP", 0, <<0, 0>>)
  /\ Quiet
  /\ mouse_down' = FALSE
  /\ UNCHANGED << grid, current_color_idx, playing, mouse_button, fullscreen,
                  audio, sound, channels, status >>

\* MOUSEMOTION and mouse_down: paint or erase with the button that went
\* down.  A motion with no button down matches no branch.
MouseMotion(pos) ==
  /\ status = "running"
  /\ event' = MouseEvent("MOUSEMOTION", 0, pos)
  /\ Quiet
  /\ IF mouse_down /\ PaintRaises(pos, mouse_button, current_color_idx)
     THEN /\ status' = "crashed"
          /\ channels' = {}
          /\ UNCHANGED grid
     ELSE /\ grid' = IF mouse_down
                     THEN PaintAt(grid, pos, mouse_button, current_color_idx)
                     ELSE grid
          /\ UNCHANGED << status, channels >>
  /\ UNCHANGED << current_color_idx, playing, mouse_down, mouse_button,
                  fullscreen, audio, sound >>

(* --------------------------- specifications ---------------------------- *)
\* The whole event loop, every handler with every enumerated input.  The
\* specifications below restrict it to the events a group of properties is
\* about.
Next ==
  \/ Quit
  \/ \E k \in KeyEvents : KeyEscape(k)
  \/ \E k \in KeyEvents : KeySpace(k)
  \/ \E k \in KeyEvents : KeyT(k)
  \/ \E k \in KeyEvents : KeyS(k)
  \/ \E k \in KeyEvents, d \in MutDraws : KeyM(k, d)
  \/ \E k \in KeyEvents : KeyR(k)
  \/ \E k \in KeyEvents : KeyF(k)
  \/ \E k \in KeyEvents, t \in GifTapes : KeyG(k, t)
  \/ \E k \in KeyEvents : KeyOther(k)
  \/ \E pos \in Positions, b \in Buttons : MouseButtonDown(pos, b)
  \/ MouseButtonUp
  \/ \E pos \in Positions : MouseMotion(pos)

Spec == Init /\ [][Next]_vars

\* Editing: the events that read or write the grid or the selected
\* instrument without rendering audio.
NextEdit ==
  \/ Quit
  \/ \E k \in KeyEvents : KeyEscape(k)
  \/ \E k \in KeyEvents, d \in MutDraws : KeyM(k, d)
  \/ \E k \in KeyEvents : KeyR(k)
  \/ \E k \in KeyEvents : KeyF(k)
  \/ \E k \in KeyEvents, t \in GifTapes : KeyG(k, t)
  \/ \E k \in KeyEvents : KeyOther(k)
  \/ \E pos \in Positions, b \in Buttons : MouseButtonDown(pos, b)
  \/ MouseButtonUp
  \/ \E pos \in Positions : MouseMotion(pos)

SpecEdit == Init /\ [][NextEdit]_vars

\* Playback: the three events that render audio, with clicks on one cell,
\* two instrument keys and reset to change what is rendered.
PlayKeys == { k \in KeyEvents : k.key \in {"K_1", "K_4"} }

NextPlay ==
  \/ \E k \in KeyEvents : KeySpace(k)
  \/ \E k \in KeyEvents : KeyT(k)
  \/ \E k \in KeyEvents : KeyS(k)
  \/ \E k \in KeyEvents : KeyR(k)
  \/ \E k \in PlayKeys : KeyOther(k)
  \/ \E b \in {1, 3} : MouseButtonDown(PosBottomLeft, b)

SpecPlay == Init /\ [][NextPlay]_vars

\* Rendering as a function of the grid: any colouring of four cells, two in
\* column 0 and two in the last column, rendered by K_t and K_s.
AudioCells ==
  { <<0, 0>>, <<1, 0>>, <<0, GRID_SIZE - 1>>, <<GRID_SIZE - 1, GRID_SIZE - 1>> }

Colours == { Background } \cup DOMAIN COLOR_TO_IDX

InitAudio ==
  /\ grid \in [AudioCells -> Colours]
  /\ current_color_idx = 0
  /\ playing = FALSE
  /\ mouse_down = FALSE
  /\ mouse_button = 1
  /\ fullscreen = FALSE
  /\ audio = None
  /\ sound = None
  /\ channels = {}
  /\ status = "running"
  /\ event = NoEvent
  /\ rand = <<>>
  /\ out = None

NextAudio ==
  \/ \E k \in KeyEvents : KeyT(k)
  \/ \E k \in KeyEvents : KeyS(k)

SpecAudio == InitAudio /\ [][NextAudio]_vars

(* =============================== claims ================================ *)
InstrumentColours == { INSTRUMENTS[i].color : i \in 1..Len(INSTRUMENTS) }

\* C1: in every state reached by painting, erasing, dragging, mutating,
\* resetting and GIF export, every grid cell holds the background colour
\* (0,0,0) or one of the five registered instrument colours.
C1_GridColours ==
  \A c \in DOMAIN grid \cup { <<0, 0>>, <<GRID_SIZE - 1, GRID_SIZE - 1>> } :
     \/ Cell(grid, c[1], c[2]) = <<0, 0, 0>>
     \/ Cell(grid, c[1], c[2]) \in InstrumentColours

\* C1 witness: after the right button was used and Snare was painted, a
\* GIF export whose mutate_grid copied a cell onto its mirror cell leaves
\* both tracked cells holding the Snare colour.
C1_Witness ==
  /\ event.key = "K_g"
  /\ \E k \in 1..GifFrames : rand[k] # <<>> /\ ~rand[k][1].flip
  /\ grid[<<0, GRID_SIZE - 1>>] = INSTRUMENTS[2].color
  /\ grid[<<GRID_SIZE - 1, 0>>] = INSTRUMENTS[2].color
  /\ mouse_button = 3

\* C2: only painting/erasing, mutation (M) and reset (R) change the grid;
\* every other event, GIF export (G) among them, leaves every cell
\* unchanged.
C2_OnlyEditsChangeGrid ==
  [][ ( /\ event'.type \notin {"MOUSEBUTTONDOWN", "MOUSEMOTION"}
        /\ event'.key \notin {"K_m", "K_r"} )
      => grid' = grid ]_vars

\* C3: every painted cell of column c adds its note to the sample indices
\* [c*step_samples, c*step_samples + step_samples) only, that range lies
\* inside the buffer for every column, samples outside the windows of
\* painted columns are zero, and no write is out of bounds.
C3_WritesInWindow ==
  /\ status # "crashed"
  /\ \A c \in 0..(GRID_SIZE - 1) :
        0 <= c * step_samples /\ c * step_samples + step_samples <= BufferLen
  /\ audio # None =>
       LET a == The(audio)
       IN  /\ ~a.raised
           /\ a.len = BufferLen
           /\ Len(a.writes) = Cardinality(PaintedCells(grid))
           /\ \A c \in PaintedCells(grid) :
                 \E k \in 1..Len(a.writes) :
                    a.writes[k].y = c[1] /\ a.writes[k].x = c[2]
           /\ \A k \in 1..Len(a.writes) :
                 LET w == a.writes[k]
                 IN  /\ <<w.y, w.x>> \in PaintedCells(grid)
                     /\ w.lo = w.x * step_samples
                     /\ w.hi = w.x * step_samples + step_samples
                     /\ w.start = w.lo /\ w.end = w.hi
                     /\ 0 <= w.lo /\ w.hi <= a.len
           /\ \A i \in Breakpoints(a) \cap (0..(a.len - 1)) :
                 Covering(a, i) # {} =>
                   \E c \in PaintedCells(grid) :
                      c[2] * step_samples <= i /\ i < (c[2] + 1) * step_samples

\* C3 witness: a render of a grid painted in the first and in the last
\* column.
C3_Witness ==
  /\ audio # None
  /\ \E k \in 1..Len(The(audio).writes) : The(audio).writes[k].x = 0
  /\ \E k \in 1..Len(The(audio).writes) :
        The(audio).writes[k].x = GRID_SIZE - 1

\* C4: the GRID_SIZE step windows of step_samples =
\* floor(SAMPLE_RATE * LOOP_LEN_SEC / GRID_SIZE) samples cover every sample
\* index of the rendered buffer: GRID_SIZE * step_samples equals the buffer
\* length LOOP_LEN_SEC * SAMPLE_RATE.
C4_StepsCoverLoop ==
  audio # None =>
    /\ step_samples = (SAMPLE_RATE * LOOP_LEN_SEC) \div GRID_SIZE
    /\ The(audio).len = LOOP_LEN_SEC * SAMPLE_RATE
    /\ GRID_SIZE * step_samples = The(audio).len

\* The event handled last started a playback: K_t, or K_SPACE turning
\* playing on.
StartedPlayback ==
  /\ status = "running"
  /\ event.key = "K_t" \/ (event.key = "K_SPACE" /\ playing)

Deterministic(g) ==
  \A c \in PaintedCells(g) : COLOR_TO_IDX[g[c]] \notin NoiseInstruments

\* Grids with the cells of g permuted within their columns: the cells of
\* DOMAIN g exchanged, or every cell moved r rows down (wrapping).
RowVariants(g) ==
  { [c \in DOMAIN g |-> g[p[c]]] :
      p \in { q \in [DOMAIN g -> DOMAIN g] :
                 /\ \A c \in DOMAIN g : q[c][2] = c[2]
                 /\ \A c, d \in DOMAIN g : q[c] = q[d] => c = d } }
  \cup { [c \in { <<(d[1] + r) % GRID_SIZE, d[2]>> : d \in DOMAIN g } |->
           g[<<(c[1] - r) % GRID_SIZE, c[2]>>]] : r \in {1, 7} }

\* The sum of the notes of the painted cells of column x at note index d.
ColumnSum(g, x, d) ==
  LET cs == { c \in PaintedCells(g) : c[2] = x }
      T  == { << COLOR_TO_IDX[g[c]], d, <<>> >> : c \in cs }
  IN  [ t \in T |-> Cardinality({ c \in cs : COLOR_TO_IDX[g[c]] = t[1] }) ]

C8_OneActiveSound ==
  /\ Cardinality(channels) <= 1
  /\ channels # {} =>
        /\ sound # None /\ audio # None
        /\ channels = { The(sound) }
        /\ The(sound).pcm = ToInt16(The(audio))
  /\ StartedPlayback =>
        /\ sound # None /\ audio # None
        /\ channels = { The(sound) }
        /\ The(audio) = grid_to_audio(grid)

\* C8 witness: K_t while a sound started by SPACE was looping, the new
\* render differing from the old one.
C8_Witness ==
  /\ event.key = "K_t"
  /\ playing
  /\ sound # None /\ The(sound).id = 1
  /\ The(audio).writes # <<>>
  /\ channels = { The(sound) }

\* C9: the GIF export's first frame is the grid at export time and each
\* later frame k is a snapshot of the grid after k successive mutate_grid
\* passes.
C9_FramesFollowMutation ==
  [][ (event'.key = "K_g" /\ out' # None) =>
        \A k \in 1..GifFrames :
           The(out').frames[k] = Snapshot(MutatePasses(grid, rand', k - 1)) ]_vars

\* C10: every key-down event (shortcuts, digits, any other key, keys with an
\* empty character string) and every wheel event is handled without
\* raising, and current_color_idx stays an integer in 0..4.
C10_EventsNeverRaise ==
  /\ status # "crashed"
  /\ current_color_idx \in 0..(Len(INSTRUMENTS) - 1)

====
